---- MODULE Spec2Model ----
(***************************************************************************)
(* Glide: the AST-to-DAG compiler (Compiler.Compile, compilePass,          *)
(* visitStatement), the NodeError wrapper (noderr.Wrap) and the graph      *)
(* executor (Graph.Execute, a breadth-first traversal).                    *)
(*                                                                         *)
(* Strings that end up in vertex keys are modelled as sequences of         *)
(* dot-free segments: the Go string "a.3.2" is <<"a", "3", "2">>, so that  *)
(* s + "." + t is s \o t and two keys are equal exactly when the Go        *)
(* strings are equal.                                                      *)
(***************************************************************************)
EXTENDS Integers, Sequences, FiniteSets, TLC

(***************************************************************************)
(* Values                                                                  *)
(***************************************************************************)

\* a nil pointer / nil interface value
Nil == [type |-> "nil"]

\* node.Type
Unknown == "Unknown"
Start == "Start"
Outcome == "Outcome"

\* State of a vertex in a Result
Inactive == "Inactive"
Complete == "Complete"
Active == "Active"

\* step.Operation
And == "And"
Or == "Or"

\* the default of Compiler.MaxDepth
DefaultMaxDepth == 10

\* node.Node{Type, ID, Priority}; the zero Node has the empty ID and priority 0
Node(t, id, prio) == [Type |-> t, ID |-> id, Priority |-> prio]
ZeroNode == Node(Unknown, <<>>, 0)

\* the four bodies of a step
Ref(n) == [type |-> "Ref", Node |-> n]
Check(expression) == [type |-> "Check", Expression |-> expression]
Boolean(op) == [type |-> "Boolean", Op |-> op]
Action(payload) == [type |-> "Action", Action |-> payload]

\* step.Step: Node is the source location handle, Position is set by the compiler
Step(body, children) ==
    [Body |-> body, Children |-> children, Node |-> Nil, Pass |-> <<>>, Position |-> <<>>]

\* strconv.Itoa on the indices that occur
Itoa(i) == <<"0", "1", "2", "3", "4", "5", "6", "7", "8", "9">>[i + 1]

\* the digits of a position, each its own segment
RECURSIVE posString(_)
posString(position) ==
    IF position = <<>> THEN <<>>
    ELSE <<Itoa(Head(position))>> \o posString(Tail(position))

\* step.Hash: the node id for a Ref, pass + "." + dotted position otherwise
Hash(s) ==
    IF s.Body.type = "Ref" THEN s.Body.Node.ID ELSE s.Pass \o posString(s.Position)


(***************************************************************************)
(* Building a Program                                                      *)
(***************************************************************************)

\* setPass: the pass name is written into a step and all its descendants
RECURSIVE setPass(_, _)
setPass(s, pass) ==
    [s EXCEPT !.Pass = pass,
              !.Children = [i \in DOMAIN s.Children |-> setPass(s.Children[i], pass)]]

\* the source location of a step: the path name and the indices leading to it
\* ($.workflow.<pass>.steps[i].and[j]...)
Loc(pass, path) == [type |-> "ast.Node", pass |-> pass, path |-> path]

\* Path.UnmarshalYAML / Step.UnmarshalYAML: every step of a parsed path carries
\* its pass and its own source location
RECURSIVE parseStep(_, _, _)
parseStep(s, pass, path) ==
    [s EXCEPT !.Pass = pass,
              !.Node = Loc(pass, path),
              !.Children = [i \in DOMAIN s.Children |->
                               parseStep(s.Children[i], pass, Append(path, i - 1))]]

\* Program.Pass: one path built with the step helpers (no source locations)
Pass(name, statements) ==
    [id |-> name, Steps |-> [i \in DOMAIN statements |-> setPass(statements[i], name)]]

\* a path as the parser returns it
ParsedPath(name, statements) ==
    [id |-> name,
     Steps |-> [i \in DOMAIN statements |-> parseStep(statements[i], name, <<i - 1>>)]]

(***************************************************************************)
(* Errors                                                                  *)
(***************************************************************************)

\* fmt.Errorf / errors.New / a sentinel error of the graph library
Errorf(msg) == [type |-> "error", msg |-> msg]

\* errors.Wrapf of github.com/pkg/errors: the cause can be unwrapped
Wrapf(err, msg) == [type |-> "withStack", msg |-> msg, cause |-> err]

\* noderr.NodeError{Node, Err}
NodeError(err, node) == [type |-> "NodeError", Err |-> err, Node |-> node]

ErrVertexAlreadyExists == Errorf("vertex already exists")
ErrVertexNotFound == Errorf("vertex not found")
ErrEdgeAlreadyExists == Errorf("edge already exists")
ErrEdgeCreatesCycle == Errorf("edge would create a cycle")

\* Unwrap(): only the pkg/errors wrappers have one; NodeError has none
Unwrap(err) == IF err.type = "withStack" THEN err.cause ELSE Nil

\* errors.Is(err, target): err or an error of its Unwrap chain equals target
\* (NodeError defines no Is method)
RECURSIVE ErrorsIs(_, _)
ErrorsIs(err, target) ==
    IF err = Nil THEN FALSE
    ELSE \/ err = target
         \/ ErrorsIs(Unwrap(err), target)

\* errors.As(err, &ne) for a NodeError target: what a wrapper that suppresses
\* double wrapping would test
RECURSIVE ErrorsAsNodeError(_)
ErrorsAsNodeError(err) ==
    IF err = Nil THEN FALSE
    ELSE \/ err.type = "NodeError"
         \/ ErrorsAsNodeError(Unwrap(err))

\* noderr.Wrap: `var ne NodeError; if errors.Is(err, &ne) { return err }`.
\* The target is a pointer to a fresh zero NodeError, which no error equals.
Wrap(err, node) ==
    LET ne == [type |-> "*NodeError", pointee |-> NodeError(Nil, Nil)]
    IN  IF ErrorsIs(err, ne) THEN err ELSE NodeError(err, node)

(***************************************************************************)
(* The graph (github.com/dominikbraun/graph, Directed, PreventCycles)      *)
(***************************************************************************)

\* the empty map
EmptyMap == [k \in {} |-> Nil]

\* NewGraph: no vertices, no edges, no compiled expressions
NewGraph == [V |-> EmptyMap, E |-> {}, programs |-> EmptyMap]

\* m[k] = v
MapPut(m, k, v) == [x \in DOMAIN m \cup {k} |-> IF x = k THEN v ELSE m[x]]

\* the vertices from which v is reached over one or more edges
RECURSIVE AncestorsFrom(_, _, _)
AncestorsFrom(E, frontier, seen) ==
    LET next == {e[1] : e \in {d \in E : d[2] \in frontier}} \ seen
    IN  IF next = {} THEN seen ELSE AncestorsFrom(E, next, seen \cup next)

Ancestors(E, v) == AncestorsFrom(E, {v}, {})

\* graph.CreatesCycle: the edge source -> target closes a cycle when the two
\* are the same vertex or target is already reached backwards from source
CreatesCycle(g, source, target) ==
    source = target \/ target \in Ancestors(g.E, source)

\* the value stored at a vertex: the step, without the fields nothing reads back
Vertex(s) == [Body |-> s.Body, Pass |-> s.Pass, Position |-> s.Position]

\* AddVertex: the first vertex stored under a hash stays; a second one is refused
AddVertex(g, s) ==
    IF Hash(s) \in DOMAIN g.V
    THEN [G |-> g, err |-> ErrVertexAlreadyExists]
    ELSE [G |-> [g EXCEPT !.V = MapPut(g.V, Hash(s), Vertex(s))], err |-> Nil]

\* a mutant of AddEdge: the cycle check is missing
AddEdgeNoCycleCheck(g, source, target) ==
    IF source \notin DOMAIN g.V \/ target \notin DOMAIN g.V
    THEN [G |-> g, err |-> ErrVertexNotFound]
    ELSE IF <<source, target>> \in g.E
    THEN [G |-> g, err |-> ErrEdgeAlreadyExists]
    ELSE [G |-> [g EXCEPT !.E = g.E \cup {<<source, target>>}], err |-> Nil]

\* AddEdge
AddEdge(g, source, target) ==
    IF source \notin DOMAIN g.V \/ target \notin DOMAIN g.V
    THEN [G |-> g, err |-> ErrVertexNotFound]
    ELSE IF <<source, target>> \in g.E
    THEN [G |-> g, err |-> ErrEdgeAlreadyExists]
    ELSE IF CreatesCycle(g, source, target)
    THEN [G |-> g, err |-> ErrEdgeCreatesCycle]
    ELSE [G |-> [g EXCEPT !.E = g.E \cup {<<source, target>>}], err |-> Nil]

\* PredecessorMap()[k]: the sources of the edges into k
Predecessors(g, k) == {e[1] : e \in {d \in g.E : d[2] = k}}

\* a mutant of Successors: of several targets one is left out
SuccessorsButOne(g, k) ==
    LET S == {e[2] : e \in {d \in g.E : d[1] = k}}
    IN  IF Cardinality(S) > 1 THEN S \ {CHOOSE v \in S : TRUE} ELSE S

\* AdjacencyMap()[k]: the targets of the edges out of k
Successors(g, k) == {e[2] : e \in {d \in g.E : d[1] = k}}


(***************************************************************************)
(* The expression language (github.com/google/cel-go), by its contract on  *)
(* the expressions that occur.  The environment declares `input` with the  *)
(* schema {group: string}.                                                 *)
(***************************************************************************)

ExprTrue == "true"
ExprFalse == "false"
ExprGroup == "input.group == \"test\""
ExprUndeclared == "aaaa"
ExprObject == "input"

\* Env.Compile: issues (a type-check error) or the output type of the expression
CelCompile(expression) ==
    CASE expression \in {ExprTrue, ExprFalse, ExprGroup} ->
            [issues |-> FALSE, OutputType |-> "bool"]
      [] expression = ExprObject -> [issues |-> FALSE, OutputType |-> "input"]
      [] OTHER -> [issues |-> TRUE, OutputType |-> "error"]

\* Program.Eval on the flattened input: a boolean, or an error when the
\* attribute the expression reads is missing
CelEval(expression, data) ==
    CASE expression = ExprTrue -> [val |-> TRUE, err |-> Nil]
      [] expression = ExprFalse -> [val |-> FALSE, err |-> Nil]
      [] OTHER ->
            IF <<"input", "group">> \in DOMAIN data
            THEN [val |-> data[<<"input", "group">>] = [kind |-> "string", v |-> "test"],
                  err |-> Nil]
            ELSE [val |-> FALSE, err |-> Errorf("no such attribute")]

(***************************************************************************)
(* The compiler                                                            *)
(***************************************************************************)

\* a mutant of assertNode: every statement is accepted
assertNodeAny(s, wantType) == Nil

\* assertNode: the statement is a Ref to a node of the wanted type
assertNode(s, wantType) ==
    IF s.Body.type # "Ref"
    THEN Errorf("statement must be a reference to a node, but wasn't a reference")
    ELSE IF s.Body.Node.Type # wantType
    THEN Errorf("statement must be a reference to a node of the wanted type")
    ELSE Nil

\* a mutant of visitBody: a Ref is accepted wherever it stands
visitBodyAnyRef(g, e, key, opts) ==
    IF e.Body.type = "Check" /\ ~CelCompile(e.Body.Expression).issues
       /\ CelCompile(e.Body.Expression).OutputType = "bool"
    THEN [G |-> [g EXCEPT !.programs = MapPut(g.programs, key, e.Body.Expression)],
          err |-> Nil]
    ELSE IF e.Body.type = "Check" THEN [G |-> g, err |-> Errorf("CEL type-check error")]
    ELSE [G |-> g, err |-> Nil]

\* the node-specific part of visitStatement (the switch on the body)
visitBody(g, e, key, opts) ==
    CASE e.Body.type = "Check" ->
            LET ast == CelCompile(e.Body.Expression)
            IN  IF ast.issues
                THEN [G |-> g, err |-> Errorf("CEL type-check error")]
                ELSE IF ast.OutputType # "bool"
                THEN [G |-> g, err |-> Errorf("CEL expression must return a boolean")]
                ELSE [G |-> [g EXCEPT !.programs = MapPut(g.programs, key, e.Body.Expression)],
                      err |-> Nil]
      [] e.Body.type = "Ref" ->
            LET t == e.Body.Node
            IN  IF t.Type = Unknown
                THEN [G |-> g, err |-> Errorf("invalid node: did not match any known start or end nodes")]
                ELSE IF t.Type = Start /\ opts.Index # 0
                THEN [G |-> g, err |-> Errorf("invalid node: start node had the wrong index")]
                ELSE IF t.Type = Start /\ opts.Depth # 0
                THEN [G |-> g, err |-> Errorf("invalid node: start node had the wrong depth")]
                ELSE IF t.Type = Outcome /\ opts.Index # opts.NumStatements - 1
                THEN [G |-> g, err |-> Errorf("invalid node: end node had the wrong index")]
                ELSE IF t.Type = Outcome /\ opts.Depth # 0
                THEN [G |-> g, err |-> Errorf("invalid node: end node had the wrong depth")]
                ELSE [G |-> g, err |-> Nil]
      [] OTHER -> [G |-> g, err |-> Nil]

\* the result of a visit: the graph, the error (Nil for none) and, with an
\* error, the location of the step whose visit raised it
Visited(g, err, origin) == [G |-> g, err |-> err, origin |-> origin]

RECURSIVE visitStatement(_)
RECURSIVE visitChildren(_, _, _, _)
RECURSIVE afterChild(_, _, _, _)

\* the loop over e.Children at the end of visitStatement, from child i on
visitChildren(g, e, i, opts) ==
    IF i > Len(e.Children) THEN Visited(g, Nil, Nil)
    ELSE afterChild(visitStatement([Statement |-> e.Children[i],
                                    G |-> g,
                                    Index |-> i - 1,
                                    Parent |-> e,
                                    Previous |-> opts.Previous,
                                    Depth |-> opts.Depth + 1,
                                    MaxDepth |-> opts.MaxDepth,
                                    NumStatements |-> opts.NumStatements]),
                    e, i, opts)

\* the first failing child ends the loop, its error wrapped with its location
afterChild(r, e, i, opts) ==
    IF r.err # Nil
    THEN Visited(r.G, Wrap(r.err, e.Children[i].Node), r.origin)
    ELSE visitChildren(r.G, e, i + 1, opts)

\* visitStatement after the switch on the body
afterBody(body, e, opts) ==
    IF body.err # Nil
    THEN Visited(body.G, body.err, e.Node)
    ELSE visitChildren(body.G, e, 1, opts)

\* visitStatement after the edge from the previous statement
afterPrevious(fromPrevious, e, opts) ==
    IF fromPrevious.err # Nil
    THEN Visited(fromPrevious.G,
                 Wrapf(fromPrevious.err, "adding edge to previous node"), e.Node)
    ELSE afterBody(visitBody(fromPrevious.G, e, Hash(e), opts), e, opts)

\* a mutant of linkedFromPrevious: steps with children are linked as well
linkedFromPreviousAlways(e, opts) == opts.Previous # Nil

\* the statement gets an edge from the previous root statement: it has no
\* children and there is a previous statement
linkedFromPrevious(e, opts) == Len(e.Children) = 0 /\ opts.Previous # Nil

\* visitStatement after the edge to the parent: a step without children is
\* linked from the previous root statement
afterParent(toParent, e, opts) ==
    IF toParent.err # Nil
    THEN Visited(toParent.G, toParent.err, e.Node)
    ELSE afterPrevious(IF linkedFromPrevious(e, opts)
                       THEN AddEdge(toParent.G, Hash(opts.Previous), Hash(e))
                       ELSE [G |-> toParent.G, err |-> Nil],
                       e, opts)

\* visitStatement after AddVertex: a vertex that exists already is accepted,
\* then the step is linked to its parent
afterAddVertex(added, e, opts) ==
    IF added.err # Nil /\ added.err # ErrVertexAlreadyExists
    THEN Visited(added.G, added.err, e.Node)
    ELSE afterParent(IF opts.Parent # Nil
                     THEN AddEdge(added.G, Hash(e), Hash(opts.Parent))
                     ELSE [G |-> added.G, err |-> Nil],
                     e, opts)

\* the position visitStatement gives the statement: the parent's, then the index
Positioned(statement, parent, index) ==
    [statement EXCEPT !.Position =
        Append(IF parent # Nil THEN parent.Position ELSE statement.Position, index)]

\* visitStatement, e being the statement with its position set
visitPositioned(e, opts) == afterAddVertex(AddVertex(opts.G, e), e, opts)

\* a mutant of DepthExceeded: the maximum depth itself is refused
DepthExceededAt(depth, maxDepth) == depth >= maxDepth

\* the depth of a statement is beyond the maximum
DepthExceeded(depth, maxDepth) == depth > maxDepth

\* visitStatement
visitStatement(opts) ==
    IF DepthExceeded(opts.Depth, opts.MaxDepth)
    THEN Visited(opts.G, Errorf("compiler max depth was exceeded"), opts.Statement.Node)
    ELSE visitPositioned(Positioned(opts.Statement, opts.Parent, opts.Index), opts)

RECURSIVE compileStatements(_, _, _, _, _)

\* the loop of compilePass after the visit of statement i: an error is wrapped
\* with the statement's location; otherwise the statement, with the position
\* the visit gave it, is the previous one of the next
afterStatement(r, g, statements, i, maxDepth) ==
    IF r.err # Nil
    THEN Visited(r.G, Wrap(r.err, statements[i].Node), r.origin)
    ELSE compileStatements(r.G, statements, i + 1,
                           Positioned(statements[i], Nil, i - 1), maxDepth)

\* the loop over the statements of a pass, from statement i on
compileStatements(g, statements, i, prev, maxDepth) ==
    IF i > Len(statements) THEN Visited(g, Nil, Nil)
    ELSE afterStatement(visitStatement([Statement |-> statements[i],
                                        G |-> g,
                                        Index |-> i - 1,
                                        Parent |-> Nil,
                                        Previous |-> prev,
                                        Depth |-> 0,
                                        MaxDepth |-> maxDepth,
                                        NumStatements |-> Len(statements)]),
                        g, statements, i, maxDepth)

\* compilePass after the count of the statements: the first is a Start, the last
\* an Outcome
compileOrdered(g, statements, first, last, maxDepth) ==
    IF first # Nil THEN Visited(g, first, statements[1].Node)
    ELSE IF last # Nil THEN Visited(g, last, statements[Len(statements)].Node)
    ELSE compileStatements(g, statements, 1, Nil, maxDepth)

\* compilePass
compilePass(g, statements, maxDepth) ==
    IF Len(statements) < 2
    THEN Visited(g, Errorf("workflow must contain at least 2 statements"), Nil)
    ELSE compileOrdered(g, statements,
                        assertNode(statements[1], Start),
                        assertNode(statements[Len(statements)], Outcome),
                        maxDepth)

RECURSIVE compilePasses(_, _, _, _)

\* the loop of Compile after a pass: the first failing pass ends it
afterPass(r, workflow, order, maxDepth) ==
    IF r.err # Nil THEN r ELSE compilePasses(r.G, workflow, Tail(order), maxDepth)

\* a mutant of compilePasses: only the path that comes first is compiled
compilePassesFirstOnly(g, workflow, order, maxDepth) ==
    IF order = <<>> THEN Visited(g, Nil, Nil)
    ELSE compilePass(g, workflow[Head(order)].Steps, maxDepth)

\* the loop of Compile over the paths of the program, in the order given (the
\* iteration order of the Workflow map)
compilePasses(g, workflow, order, maxDepth) ==
    IF order = <<>> THEN Visited(g, Nil, Nil)
    ELSE afterPass(compilePass(g, workflow[Head(order)].Steps, maxDepth),
                   workflow, order, maxDepth)

\* what Compile returns: the graph, or nil and the error
compileReturn(r) ==
    IF r.err # Nil THEN Visited(Nil, r.err, r.origin) ELSE Visited(r.G, Nil, Nil)

\* Compiler.Compile: a MaxDepth of 0 means the default
Compile(workflow, order, maxDepth) ==
    compileReturn(compilePasses(NewGraph, workflow, order,
                                IF maxDepth = 0 THEN DefaultMaxDepth ELSE maxDepth))

(***************************************************************************)
(* The executor                                                            *)
(***************************************************************************)

\* the map with the given (key, value) pairs
MapOf(pairs) == [k \in {p[1] : p \in pairs} |-> (CHOOSE p \in pairs : p[1] = k)[2]]

\* InputMap.build: every field under key + "." + name, and the fields of a field
\* that is itself a map below it
RECURSIVE build(_, _)
build(key, input) ==
    UNION {{<<key \o <<k>>, input[k]>>}
           \cup (IF input[k].kind = "map" THEN build(key \o <<k>>, input[k].m) ELSE {})
           : k \in DOMAIN input}

\* NewInputMap(key, data).Data
NewInputMap(key, data) == MapOf(build(<<key>>, data))

\* the payloads of an Action: none, the testAction of the tests, the Approval
\* of the Common Fate dialect
TestAction(complete) == [kind |-> "testAction", complete |-> complete]
Approval(groups) == [kind |-> "Approval", Groups |-> groups]

\* t.Action.(Completer): the payload has a Complete method
IsCompleter(payload) == payload # Nil

\* Completer.Complete(input) on the raw input: testAction returns its flag,
\* Approval decodes input.approvals and looks for a required group
CompleterComplete(payload, input) ==
    IF payload.kind = "testAction" THEN [complete |-> payload.complete, err |-> Nil]
    ELSE IF "approvals" \notin DOMAIN input THEN [complete |-> FALSE, err |-> Nil]
    ELSE IF input["approvals"].kind # "list"
    THEN [complete |-> FALSE, err |-> Errorf("mapstructure: source data must be an array or slice")]
    ELSE [complete |-> \E i \in DOMAIN input["approvals"].items :
                          input["approvals"].items[i] \cap payload.Groups # {},
          err |-> Nil]

\* the predecessors of k that are Complete in the state map so far
CompletedPredecessors(g, state, k) ==
    {p \in Predecessors(g, k) : p \in DOMAIN state /\ state[p] = Complete}

\* a Check is evaluated only with a Complete predecessor
CheckReached(completedCount) == completedCount # 0

\* a Boolean is Complete: And with all its predecessors Complete, Or with one
BooleanComplete(op, completedCount, numPredecessors) ==
    \/ op = And /\ completedCount = numPredecessors
    \/ op = Or /\ completedCount > 0

\* a mutant of ActionActivated: an Action is activated whatever came before it
ActionActivatedAlways(completedCount) == TRUE

\* an Action is activated, and its completion predicate asked, with a Complete
\* predecessor
ActionActivated(completedCount) == completedCount > 0

\* a mutant of RefComplete: a node is Complete whenever it is visited
RefCompleteAlways(completedCount) == TRUE

\* a Ref is Complete with a Complete predecessor
RefComplete(completedCount) == completedCount > 0

\* a mutant of HigherPriority: the Outcome visited last wins
HigherPriorityLast(outcome, n) == TRUE

\* a Complete Outcome node replaces the running outcome when its priority is
\* strictly higher
HigherPriority(outcome, n) == outcome.Priority < n.Priority

\* a mutant of initialState: every vertex starts Inactive
initialStateInactive(k, start) == Inactive

\* the state a vertex gets when its visit begins: Inactive, and Complete for
\* the start
initialState(k, start) == IF k = start THEN Complete ELSE Inactive

\* the callback Execute hands to graph.BFS, on vertex k. x is the traversal's
\* record (state, outcome, cg, evaluated); the result adds verr and stop.
\* evaluated collects the vertices whose expression or completion predicate ran.
visit(g, start, input, x, k) ==
    LET state0 == MapPut(x.state, k, initialState(k, start))
        v == g.V[k]
        predecessors == Predecessors(g, k)
        completed == CompletedPredecessors(g, state0, k)
        completedCount == Cardinality(completed)
        cg == x.cg \cup {<<p, k>> : p \in completed}
        base == [state |-> state0, outcome |-> x.outcome, cg |-> cg,
                 evaluated |-> x.evaluated, verr |-> Nil, stop |-> FALSE]
        t == v.Body
    IN
    CASE t.type = "Check" ->
            IF ~CheckReached(completedCount) THEN base
            ELSE IF k \notin DOMAIN g.programs
            THEN [base EXCEPT !.verr = Errorf("could not find CEL program"), !.stop = TRUE]
            ELSE LET r == CelEval(g.programs[k], NewInputMap("input", input))
                     ran == [base EXCEPT !.evaluated = @ \cup {k}]
                 IN  IF r.err # Nil THEN [ran EXCEPT !.verr = r.err, !.stop = TRUE]
                     ELSE IF r.val THEN [ran EXCEPT !.state = MapPut(state0, k, Complete)]
                     ELSE ran
      [] t.type = "Boolean" ->
            IF BooleanComplete(t.Op, completedCount, Cardinality(predecessors))
            THEN [base EXCEPT !.state = MapPut(state0, k, Complete)]
            ELSE base
      [] t.type = "Action" ->
            LET activated == IF ActionActivated(completedCount)
                             THEN [base EXCEPT !.state = MapPut(state0, k, Active)]
                             ELSE base
            IN  IF IsCompleter(t.Action) /\ ActionActivated(completedCount)
                THEN LET r == CompleterComplete(t.Action, input)
                         ran == [activated EXCEPT !.evaluated = @ \cup {k}]
                     IN  IF r.err # Nil THEN [ran EXCEPT !.verr = r.err, !.stop = TRUE]
                         ELSE IF r.complete
                         THEN [ran EXCEPT !.state = MapPut(state0, k, Complete)]
                         ELSE ran
                ELSE activated
      [] OTHER ->
            LET isComplete == RefComplete(completedCount)
                isEndNode == t.Node.Type = Outcome
                marked == IF isComplete
                          THEN [base EXCEPT !.state = MapPut(state0, k, Complete)]
                          ELSE base
            IN  IF isComplete /\ isEndNode /\ HigherPriority(x.outcome, t.Node)
                THEN [marked EXCEPT !.outcome = t.Node]
                ELSE marked

\* a mutant of startError: any vertex of the graph is accepted as start
startErrorMissingOnly(g, start) ==
    IF start \notin DOMAIN g.V THEN ErrVertexNotFound ELSE Nil

\* the check of the start argument at the head of Execute: Nil when it is a
\* vertex holding a Ref to a Start node
startError(g, start) ==
    IF start \notin DOMAIN g.V THEN ErrVertexNotFound
    ELSE IF g.V[start].Body.type # "Ref"
    THEN Errorf("provided start was not a node reference")
    ELSE IF g.V[start].Body.Node.Type # Start
    THEN Errorf("provided start was not a start node")
    ELSE Nil

\* the orders in which the elements of a set can be appended to the queue (the
\* iteration order of the adjacency map is not specified)
RECURSIVE Orders(_)
Orders(S) ==
    IF S = {} THEN {<<>>}
    ELSE UNION {{<<x>> \o rest : rest \in Orders(S \ {x})} : x \in S}


(***************************************************************************)
(* The dialect: the nodes a workflow may refer to                          *)
(***************************************************************************)

\* Dialect{Nodes}: node id -> node, the ID field of a declared node left unset
Dialect(nodes) == [Nodes |-> nodes]

\* a mutant of InvalidPriority: a priority of 0 is accepted
InvalidPriorityNegative(priority) == priority < 0

\* Validate: the priority of an Outcome node must be greater than 0
InvalidPriority(priority) == priority <= 0

\* the loop of Validate over d.Nodes, in the order given (the iteration order of
\* the map), priorityMap holding the priorities of the Outcome nodes seen
RECURSIVE validateNodes(_, _, _)
validateNodes(d, order, priorityMap) ==
    IF order = <<>> THEN Nil
    ELSE LET n == d.Nodes[Head(order)]
         IN  IF n.Type # Outcome THEN validateNodes(d, Tail(order), priorityMap)
             ELSE IF InvalidPriority(n.Priority)
             THEN Errorf("dialect error: all end nodes must have a priority greater than 0")
             ELSE IF n.Priority \in priorityMap
             THEN Errorf("dialect error: each end node must have a unique priority")
             ELSE validateNodes(d, Tail(order), priorityMap \cup {n.Priority})

\* Dialect.Validate: the error, Nil for none
Validate(d, order) == validateNodes(d, order, {})

\* Step.parseNodeRef for `start: expr` (nodeType Start) and `outcome: expr`
\* (nodeType Outcome): the body of the step, or an error. The node is built
\* with the type of the step form, and it is this node's type that is compared
\* with the step form before the declared node replaces it
parseNodeRef(expr, d, nodeType) ==
    LET n == Node(nodeType, expr, 0)
    IN  IF expr \in DOMAIN d.Nodes
        THEN IF n.Type # nodeType
             THEN [Body |-> Nil, err |-> Errorf("can only be used as a step of the other kind")]
             ELSE [Body |-> Ref([d.Nodes[expr] EXCEPT !.ID = expr]), err |-> Nil]
        ELSE [Body |-> Ref(n), err |-> Nil]

(***************************************************************************)
(* The schema type provider (jsoncel.Provider).  The keys of the type map  *)
(* are dotted paths, sequences of segments like the vertex keys.           *)
(***************************************************************************)

\* the Type of a Schema; JsonUnset is the zero value of a schema without type
JsonNull == "null"
JsonBoolean == "boolean"
JsonObject == "object"
JsonArray == "array"
JsonNumber == "number"
JsonString == "string"
JsonInteger == "integer"
JsonUnset == ""

\* the schema `true`, the value of AdditionalProperties that allows any key
TrueSchema == [type |-> "TrueSchema"]

\* Schema, by the fields the provider reads
Schema(type, additionalProperties, properties) ==
    [Type |-> type, AdditionalProperties |-> additionalProperties, Properties |-> properties]

\* the expression types of cel-go's decls
declsNull == [kind |-> "null"]
declsBool == [kind |-> "bool"]
declsAny == [kind |-> "any"]
declsDouble == [kind |-> "double"]
declsString == [kind |-> "string"]
declsInt == [kind |-> "int"]
NewObjectType(name) == [kind |-> "object", name |-> name]
NewListType(elem) == [kind |-> "list", elem |-> elem]

\* the fallback registry is empty: it finds no type and no field
protosFindType(typeName) == [type |-> Nil, found |-> FALSE]
protosFindFieldType(messageType, fieldName) == [type |-> Nil, found |-> FALSE]

\* mapSchema: the schema is registered under the key, then every property
\* under the key, a dot and its name
RECURSIVE mapSchema(_, _, _)
RECURSIVE mapProperties(_, _, _, _)
mapProperties(typeMap, key, s, names) ==
    IF names = {} THEN typeMap
    ELSE LET childKey == CHOOSE n \in names : TRUE
         IN  mapProperties(mapSchema(typeMap, key \o <<childKey>>, s.Properties[childKey]),
                           key, s, names \ {childKey})

mapSchema(typeMap, key, s) ==
    mapProperties(MapPut(typeMap, key, s), key, s, DOMAIN s.Properties)

\* NewProvider
NewProvider(typeName, schema) ==
    [schema |-> schema, typeName |-> typeName,
     typeMap |-> mapSchema(EmptyMap, typeName, schema)]

\* Provider.FindType
FindType(p, typeName) ==
    IF typeName \in DOMAIN p.typeMap
    THEN LET f == p.typeMap[typeName]
         IN  CASE f.Type = JsonNull -> [type |-> declsNull, found |-> TRUE]
               [] f.Type = JsonBoolean -> [type |-> declsBool, found |-> TRUE]
               [] f.Type = JsonObject ->
                     IF f.AdditionalProperties = TrueSchema
                     THEN [type |-> declsAny, found |-> TRUE]
                     ELSE [type |-> NewObjectType(typeName), found |-> TRUE]
               [] f.Type = JsonArray -> [type |-> NewListType(declsString), found |-> TRUE]
               [] f.Type = JsonNumber -> [type |-> declsDouble, found |-> TRUE]
               [] f.Type = JsonString -> [type |-> declsString, found |-> TRUE]
               [] f.Type = JsonInteger -> [type |-> declsInt, found |-> TRUE]
               [] OTHER -> protosFindType(typeName)
    ELSE protosFindType(typeName)

\* Provider.FindFieldType
FindFieldType(p, messageType, fieldName) ==
    IF fieldName \in DOMAIN p.typeMap
    THEN LET f == p.typeMap[fieldName]
         IN  CASE f.Type = JsonNull -> [type |-> declsNull, found |-> TRUE]
               [] f.Type = JsonBoolean -> [type |-> declsBool, found |-> TRUE]
               [] f.Type = JsonObject ->
                     [type |-> NewObjectType(messageType \o fieldName), found |-> TRUE]
               [] f.Type = JsonArray -> [type |-> NewListType(declsString), found |-> TRUE]
               [] f.Type = JsonNumber -> [type |-> declsDouble, found |-> TRUE]
               [] f.Type = JsonString -> [type |-> declsString, found |-> TRUE]
               [] f.Type = JsonInteger -> [type |-> declsInt, found |-> TRUE]
               [] OTHER -> protosFindFieldType(messageType, fieldName)
    ELSE protosFindFieldType(messageType, fieldName)


(***************************************************************************)
(* The programs, inputs and start arguments the model runs                 *)
(***************************************************************************)

\* the largest priority given to an Outcome node
MaxPriority == 2
\* the largest number of steps between the Start and the Outcome of a path of
\* a program with two paths
MaxSteps == 2
\* the largest number of children of a Boolean
MaxChildren == 2

Request == <<"request">>
Request2 == <<"request2">>
Approved == <<"approved">>
Denied == <<"denied">>

\* s.Start(id), s.Outcome(id), s.Named(..).Priority(p).Outcome(id), s.Ref(id)
StartStep(id) == Step(Ref(Node(Start, id, 0)), <<>>)
OutcomeStep(id, prio) == Step(Ref(Node(Outcome, id, prio)), <<>>)
UnknownStep(id) == Step(Ref(Node(Unknown, id, 0)), <<>>)
\* s.Check(expression), s.Action(name, payload), s.Boolean(op, children...)
CheckStep(expression) == Step(Check(expression), <<>>)
ActionStep(payload) == Step(Action(payload), <<>>)
BooleanStep(op, children) == Step(Boolean(op), children)

\* the sequences over S of length lo..hi
SeqsOf(S, lo, hi) == UNION {[1..n -> S] : n \in lo..hi}

\* the inputs: group = "test"; group = "other" with an approval of the admins
\* group; no field at all
InputTest == [k \in {"group"} |-> [kind |-> "string", v |-> "test"]]
InputOther ==
    [k \in {"group", "approvals"} |->
        IF k = "group" THEN [kind |-> "string", v |-> "other"]
        ELSE [kind |-> "list", items |-> <<{"admins"}>>]]
InputEmpty == [k \in {} |-> Nil]
\* group = "test" with approvals that are a string, not a list
InputBadApprovals ==
    [k \in {"group", "approvals"} |->
        IF k = "group" THEN [kind |-> "string", v |-> "test"]
        ELSE [kind |-> "string", v |-> "admins"]]

\* leaves: checks, and actions that complete, stay active, or depend on the input
Checks == {CheckStep(ExprTrue), CheckStep(ExprGroup)}
Leaves == Checks \cup {ActionStep(TestAction(FALSE)), ActionStep(Approval({"admins"}))}

\* a Boolean nested in a Boolean, over one check
InnerBooleans == {BooleanStep(op, <<c>>) : op \in {And, Or}, c \in Checks}
\* a Boolean at the root of a path: up to MaxChildren checks or nested Booleans
RootBooleans ==
    {BooleanStep(op, cs) : op \in {And, Or},
                           cs \in SeqsOf(Checks \cup InnerBooleans, 0, MaxChildren)}

\* one path "default": request, one Boolean or one or two leaves, approved
NestedPrograms ==
    {[p \in {<<"default">>} |->
        Pass(p, <<StartStep(Request)>> \o mid \o <<OutcomeStep(Approved, 1)>>)]
     : mid \in {<<b>> : b \in RootBooleans} \cup SeqsOf(Leaves, 1, 2)}

\* two paths "first" and "second" of 0..MaxSteps steps each, that share their
\* start or their outcome or neither: checks in "first", checks that hold
\* whatever the input in "second"
TwoPathPrograms ==
    {[p \in {<<"first">>, <<"second">>} |->
        IF p = <<"first">>
        THEN Pass(p, <<StartStep(Request)>> \o m1 \o <<OutcomeStep(Approved, prio)>>)
        ELSE Pass(p, <<StartStep(s2)>> \o m2 \o <<o2>>)]
     : m1 \in SeqsOf(Checks, 0, MaxSteps),
       m2 \in SeqsOf({CheckStep(ExprTrue)}, 0, MaxSteps),
       prio \in 0..MaxPriority, s2 \in {Request, Request2},
       o2 \in {OutcomeStep(Approved, 1), OutcomeStep(Denied, 1)}}

\* two paths "a" and "a.3" whose keys meet: the third child of the Boolean at
\* index 3 of "a" and the step at index 2 of "a.3" both hash to a.3.2 (and the
\* second child and the step at index 1 to a.3.1)
CollidingLeaves == {CheckStep(ExprTrue), ActionStep(TestAction(TRUE))}
CollidingPrograms ==
    {[p \in {<<"a">>, <<"a", "3">>} |->
        IF p = <<"a">>
        THEN Pass(p, <<StartStep(Request), CheckStep(ExprTrue), CheckStep(ExprTrue),
                       BooleanStep(Or, <<CheckStep(ExprFalse), CheckStep(ExprFalse), l1>>),
                       OutcomeStep(Approved, 1)>>)
        ELSE Pass(p, <<StartStep(Request), CheckStep(ExprFalse), l2,
                       OutcomeStep(Approved, 1)>>)]
     : l1 \in CollidingLeaves, l2 \in CollidingLeaves}

\* steps that make a path fail to compile where they stand
BadLeaves ==
    {CheckStep(ExprUndeclared), CheckStep(ExprObject), UnknownStep(<<"b">>),
     StartStep(Request), OutcomeStep(Approved, 1)}

\* one parsed path "default" (every step has its source location): between
\* request and approved one step, good or bad, at depth 0, 1 or 2; and paths
\* that are too short or do not begin with a Start or end with an Outcome
ParsedMiddles ==
    LET L == BadLeaves \cup {CheckStep(ExprTrue), CheckStep(ExprGroup)}
    IN  {<<l>> : l \in L}
        \cup {<<BooleanStep(op, <<CheckStep(ExprTrue), l>>)>> : op \in {And, Or}, l \in L}
        \cup {<<BooleanStep(And, <<BooleanStep(Or, <<l>>)>>)>> : l \in L}
        \cup {<<BooleanStep(Or, <<CheckStep(ExprTrue), CheckStep(ExprTrue), l>>)>>
              : l \in {StartStep(Request), OutcomeStep(Approved, 1)}}
ParsedPrograms ==
    {[p \in {<<"default">>} |->
        ParsedPath(p, <<StartStep(Request)>> \o mid \o <<OutcomeStep(Approved, 1)>>)]
     : mid \in ParsedMiddles}
    \cup {[p \in {<<"default">>} |-> ParsedPath(p, steps)]
          : steps \in {<<StartStep(Request)>>,
                       <<OutcomeStep(Approved, 1), StartStep(Request)>>,
                       <<StartStep(Request), CheckStep(ExprTrue)>>,
                       <<CheckStep(ExprTrue), OutcomeStep(Approved, 1)>>}}

\* one path "default" of a Start and an Outcome only, of two ids or of one
MinimalPrograms ==
    {[p \in {<<"default">>} |-> Pass(p, <<StartStep(a), OutcomeStep(b, 1)>>)]
     : a \in {Request, Approved}, b \in {Approved, Denied}}

\* programs whose edges close a cycle: the paths "first" from request to
\* approved and "second" from approved back to request, over 0 or 1 checks;
\* and one path from request to request
CyclicPrograms ==
    {[p \in {<<"first">>, <<"second">>} |->
        IF p = <<"first">>
        THEN Pass(p, <<StartStep(Request)>> \o m1 \o <<OutcomeStep(Approved, 1)>>)
        ELSE Pass(p, <<StartStep(Approved)>> \o m2 \o <<OutcomeStep(Request, 2)>>)]
     : m1 \in SeqsOf(Checks, 0, 1), m2 \in SeqsOf(Checks, 0, 1)}
    \cup {[p \in {<<"default">>} |->
             Pass(p, <<StartStep(Request)>> \o m \o <<OutcomeStep(Request, 1)>>)]
          : m \in SeqsOf(Checks, 0, 1)}

\* programs where the Outcome of one path is the Start of another and no
\* cycle is closed: "first" from request to approved, "second" from approved
\* to denied, over 0 or 1 checks
ChainPrograms ==
    {[p \in {<<"first">>, <<"second">>} |->
        IF p = <<"first">>
        THEN Pass(p, <<StartStep(Request)>> \o m1 \o <<OutcomeStep(Approved, 1)>>)
        ELSE Pass(p, <<StartStep(Approved)>> \o m2 \o <<OutcomeStep(Denied, 2)>>)]
     : m1 \in SeqsOf(Checks, 0, 1), m2 \in SeqsOf(Checks, 0, 1)}

\* a check under depth - 1 nested Booleans, each the only child of the one above
RECURSIVE Nest(_)
Nest(depth) ==
    IF depth = 0 THEN CheckStep(ExprTrue) ELSE BooleanStep(And, <<Nest(depth - 1)>>)

\* the depths of nesting around the maximum depths the compiler is given
Depths == {1, 2, 3, DefaultMaxDepth, DefaultMaxDepth + 1}

\* one path "default" with a check at the given depth
DeepPrograms ==
    {[p \in {<<"default">>} |->
        Pass(p, <<StartStep(Request), Nest(d), OutcomeStep(Approved, 1)>>)]
     : d \in Depths}

\* the declarations of a node id: none, a Start, an Outcome of some priority
Declarations ==
    {Nil} \cup {Node(Start, <<>>, prio) : prio \in 0..1}
          \cup {Node(Outcome, <<>>, prio) : prio \in -1..MaxPriority}

\* the dialects over the ids request, approved and denied
Dialects ==
    {Dialect([id \in {i \in {Request, Approved, Denied} : decl[i] # Nil} |-> decl[id]])
     : decl \in [{Request, Approved, Denied} -> Declarations]}

\* what Execute is called with as start: a Start node, an Outcome node, no
\* vertex, a vertex that is not a Ref
StartArgs == {Request, Approved, <<"missing">>, <<"default", "1">>}

\* the runs: a program, the MaxDepth of the compiler, an input, a start argument
Scenarios ==
    [program : NestedPrograms \cup TwoPathPrograms,
     MaxDepth : {0},
     input : {InputTest, InputOther},
     start : StartArgs]
    \cup [program : CollidingPrograms,
          MaxDepth : {0},
          input : {InputTest},
          start : {Request}]
    \cup [program : ParsedPrograms,
          MaxDepth : {0, 1},
          input : {InputTest, InputEmpty},
          start : {Request}]
    \cup [program : NestedPrograms,
          MaxDepth : {0},
          input : {InputEmpty, InputBadApprovals},
          start : {Request}]
    \cup [program : MinimalPrograms \cup CyclicPrograms,
          MaxDepth : {0},
          input : {InputTest},
          start : {Request}]
    \cup [program : DeepPrograms,
          MaxDepth : {0, 1, 2},
          input : {InputTest},
          start : {Request}]
    \cup [program : ChainPrograms,
          MaxDepth : {0},
          input : {InputTest},
          start : {Request, Approved}]

\* the deepest nesting of objects in a schema below the root
MaxSchemaDepth == 1

\* the types a property of a schema is given
JsonTypes == {JsonNull, JsonBoolean, JsonArray, JsonNumber, JsonString, JsonInteger}

\* the schemas of properties: a value of some type, or an object, closed or
\* open to any key, with no property or the property id, nested up to depth
RECURSIVE PropertySchemas(_)
PropertySchemas(depth) ==
    {Schema(t, Nil, EmptyMap) : t \in JsonTypes}
    \cup {Schema(JsonObject, ap, EmptyMap) : ap \in {Nil, TrueSchema}}
    \cup IF depth = 0 THEN {}
         ELSE {Schema(JsonObject, ap, [n \in {"id"} |-> c]) :
                  ap \in {Nil, TrueSchema}, c \in PropertySchemas(depth - 1)}

\* the root schemas: as in TestProvider a schema without type, or an object,
\* with the property group and with or without the property name
Schemas ==
    {Schema(t, Nil, [n \in {"group"} |-> g]) :
        t \in {JsonUnset, JsonObject}, g \in PropertySchemas(MaxSchemaDepth)}
    \cup {Schema(JsonUnset, Nil, [n \in {"name", "group"} |->
                                    IF n = "name" THEN Schema(JsonString, Nil, EmptyMap) ELSE g]) :
             g \in PropertySchemas(MaxSchemaDepth)}

(***************************************************************************)
(* The state machine                                                       *)
(***************************************************************************)

VARIABLES
    program,   \* Compiler.Program.Workflow: path name -> path
    MaxDepth,  \* Compiler.MaxDepth
    input,     \* the input of Execute
    start,     \* the start argument of Execute
    pc,        \* "new", "compiled", "failed" (Compile returned an error), "bfs"
    graph,     \* the Graph Compile returned, Nil before and on failure
    cerr,      \* what Compile returned as error: [err, origin]
    x,         \* the state map, outcome and completion graph of the traversal,
               \* kept after Execute returned until the next Execute begins
    queue,     \* the queue of graph.BFS
    visited,   \* the visited set of graph.BFS
    verr,      \* the error a visit recorded
    result,    \* what the last Execute returned: [res, err], Nil before
    results,   \* every [res, err] an Execute of this graph has returned
    dialect,   \* the dialect of the context, Nil when none is looked at
    verdicts,  \* every error (Nil for none) a Validate of the dialect returned
    ref,       \* the last call of parseNodeRef: [expr, nodeType, parsed]
    provider,  \* the Provider the type checker asks, Nil when none is looked at
    found      \* the last query of the provider and what it returned

vars == <<program, MaxDepth, input, start, pc, graph, cerr, x, queue, visited, verr,
          result, results, dialect, verdicts, ref, provider, found>>

\* the variables of the compiler and the executor
runVars == <<program, MaxDepth, input, start, pc, graph, cerr, x, queue, visited, verr,
             result, results>>

\* the variables of the dialect
dialectVars == <<dialect, verdicts, ref>>

\* the variables of the type provider
providerVars == <<provider, found>>

NoTraversal == [state |-> EmptyMap, outcome |-> ZeroNode, cg |-> {}, evaluated |-> {}]

Init ==
    /\ \E sc \in Scenarios :
          /\ program = sc.program
          /\ MaxDepth = sc.MaxDepth
          /\ input = sc.input
          /\ start = sc.start
    /\ pc = "new"
    /\ graph = Nil
    /\ cerr = [err |-> Nil, origin |-> Nil]
    /\ x = NoTraversal
    /\ queue = <<>>
    /\ visited = {}
    /\ verr = Nil
    /\ result = Nil
    /\ results = {}
    /\ dialect = Nil
    /\ verdicts = {}
    /\ ref = Nil
    /\ provider = Nil
    /\ found = Nil

\* the state after Compile returned r
Compiled(r) ==
    /\ graph' = r.G
    /\ cerr' = [err |-> r.err, origin |-> r.origin]
    /\ pc' = IF r.err = Nil THEN "compiled" ELSE "failed"

\* Compiler.Compile, the paths taken in some order (MaxDepth is the depth the
\* Compiler was given; Compile reads 0 as the default)
DoCompile ==
    /\ pc = "new"
    /\ \E order \in Orders(DOMAIN program) : Compiled(Compile(program, order, MaxDepth))
    /\ UNCHANGED <<program, MaxDepth, input, start, x, queue, visited, verr, result, results, dialectVars, providerVars>>

\* Compiler.Compile called again on the same Compiler before any Execute: the
\* Workflow map is ranged over anew, in some order
Recompile ==
    /\ pc \in {"compiled", "failed"}
    /\ result = Nil /\ results = {}
    /\ \E order \in Orders(DOMAIN program) : Compiled(Compile(program, order, MaxDepth))
    /\ UNCHANGED <<program, MaxDepth, input, start, x, queue, visited, verr, result, results, dialectVars, providerVars>>

\* Graph.Execute up to the call of graph.BFS: a bad start argument returns an
\* error at once, otherwise the traversal begins with the start in the queue
ExecuteBegin ==
    /\ pc = "compiled"
    /\ LET e == startError(graph, start)
       IN  IF e # Nil
           THEN /\ result' = [res |-> Nil, err |-> e]
                /\ results' = results \cup {[res |-> Nil, err |-> e]}
                /\ UNCHANGED <<pc, x, queue, visited, verr>>
           ELSE /\ pc' = "bfs"
                /\ x' = NoTraversal
                /\ queue' = <<start>>
                /\ visited' = {start}
                /\ verr' = Nil
                /\ result' = Nil
                /\ UNCHANGED results
    /\ UNCHANGED <<program, MaxDepth, input, start, graph, cerr, dialectVars, providerVars>>

\* the state after the visit of the head of the queue returned r: unless it
\* stops the traversal, the successors not seen before are marked and appended
\* in the order the adjacency map yields them
Visit(r, new) ==
    /\ x' = [state |-> r.state, outcome |-> r.outcome, cg |-> r.cg,
             evaluated |-> r.evaluated]
    /\ verr' = r.verr
    /\ IF r.stop
       THEN UNCHANGED <<queue, visited>>
       ELSE \E order \in Orders(new) :
               /\ queue' = Tail(queue) \o order
               /\ visited' = visited \cup new

\* one iteration of graph.BFS
BFSVisit ==
    /\ pc = "bfs"
    /\ verr = Nil
    /\ queue # <<>>
    /\ Visit(visit(graph, start, input, x, Head(queue)),
             Successors(graph, Head(queue)) \ visited)
    /\ UNCHANGED <<program, MaxDepth, input, start, pc, graph, cerr, result, results, dialectVars, providerVars>>

\* a mutant of executeReturn: the state reached so far comes with the error
executeReturnPartial(err, t) ==
    [res |-> [State |-> t.state, Outcome |-> t.outcome.ID, CG |-> t.cg], err |-> err]

\* what Execute returns after the traversal: the error of the visit and no
\* Result, or the Result
executeReturn(err, t) ==
    IF err # Nil THEN [res |-> Nil, err |-> err]
    ELSE [res |-> [State |-> t.state, Outcome |-> t.outcome.ID, CG |-> t.cg],
          err |-> Nil]

\* the state after Execute returned r
Returns(r) ==
    /\ result' = r
    /\ results' = results \cup {r}

\* the end of Execute
ExecuteReturn ==
    /\ pc = "bfs"
    /\ verr # Nil \/ queue = <<>>
    /\ Returns(executeReturn(verr, x))
    /\ pc' = "compiled"
    /\ queue' = <<>>
    /\ visited' = {}
    /\ verr' = Nil
    /\ UNCHANGED <<program, MaxDepth, input, start, graph, cerr, x, dialectVars, providerVars>>

Next == DoCompile \/ Recompile \/ ExecuteBegin \/ BFSVisit \/ ExecuteReturn

Spec == Init /\ [][Next]_vars

\* a dialect is in the context; nothing is compiled or executed
DialectInit ==
    /\ dialect \in Dialects
    /\ verdicts = {}
    /\ ref = Nil
    /\ provider = Nil
    /\ found = Nil
    /\ program = EmptyMap
    /\ MaxDepth = 0
    /\ input = InputEmpty
    /\ start = <<>>
    /\ pc = "parse"
    /\ graph = Nil
    /\ cerr = [err |-> Nil, origin |-> Nil]
    /\ x = NoTraversal
    /\ queue = <<>>
    /\ visited = {}
    /\ verr = Nil
    /\ result = Nil
    /\ results = {}

\* Dialect.Validate, the nodes taken in some order; the dialect is only read
DoValidate ==
    /\ pc = "parse"
    /\ \E order \in Orders(DOMAIN dialect.Nodes) :
          verdicts' = verdicts \cup {Validate(dialect, order)}
    /\ UNCHANGED <<dialect, ref>>
    /\ UNCHANGED <<runVars, providerVars>>

\* Step.parseNodeRef on a step `start: expr` or `outcome: expr`
DoParseNodeRef ==
    /\ pc = "parse"
    /\ \E expr \in {Request, Approved, Denied} : \E nodeType \in {Start, Outcome} :
          ref' = [expr |-> expr, nodeType |-> nodeType,
                  parsed |-> parseNodeRef(expr, dialect, nodeType)]
    /\ UNCHANGED <<dialect, verdicts>>
    /\ UNCHANGED <<runVars, providerVars>>

DialectNext == DoValidate \/ DoParseNodeRef

DialectSpec == DialectInit /\ [][DialectNext]_vars

\* a provider for the variable input has been made from a schema; nothing is
\* compiled or executed
ProviderInit ==
    /\ \E schema \in Schemas : provider = NewProvider(<<"input">>, schema)
    /\ found = Nil
    /\ dialect = Nil
    /\ verdicts = {}
    /\ ref = Nil
    /\ program = EmptyMap
    /\ MaxDepth = 0
    /\ input = InputEmpty
    /\ start = <<>>
    /\ pc = "check"
    /\ graph = Nil
    /\ cerr = [err |-> Nil, origin |-> Nil]
    /\ x = NoTraversal
    /\ queue = <<>>
    /\ visited = {}
    /\ verr = Nil
    /\ result = Nil
    /\ results = {}

\* the names the type checker asks about: the paths of the schema, single
\* field names, and a name the schema does not have
TypeNames == DOMAIN provider.typeMap \cup {<<"missing">>}
FieldNames == {<<"name">>, <<"group">>, <<"id">>, <<"missing">>} \cup DOMAIN provider.typeMap

\* the type checker calls Provider.FindType
DoFindType ==
    /\ pc = "check"
    /\ \E typeName \in TypeNames :
          found' = [query |-> "FindType", typeName |-> typeName,
                    returned |-> FindType(provider, typeName)]
    /\ UNCHANGED <<provider, runVars, dialectVars>>

\* the type checker calls Provider.FindFieldType
DoFindFieldType ==
    /\ pc = "check"
    /\ \E messageType \in TypeNames : \E fieldName \in FieldNames :
          found' = [query |-> "FindFieldType", messageType |-> messageType,
                    fieldName |-> fieldName,
                    returned |-> FindFieldType(provider, messageType, fieldName)]
    /\ UNCHANGED <<provider, runVars, dialectVars>>

ProviderNext == DoFindType \/ DoFindFieldType

ProviderSpec == ProviderInit /\ [][ProviderNext]_vars


(***************************************************************************)
(* Properties                                                              *)
(***************************************************************************)

\* a successful Execute has returned, and its Result is in result
Returned == pc = "compiled" /\ result # Nil /\ result.err = Nil

\* the state map and the outcome of the Result
State == result.res.State
ReturnedOutcome == result.res.Outcome

\* p is Complete in the state map st; a vertex without an entry is not
IsComplete(st, p) == p \in DOMAIN st /\ st[p] = Complete

\* the vertices with an entry in the returned state map whose body has the type
VisitedOfType(type) == {k \in DOMAIN State : graph.V[k].Body.type = type}

\* k has a predecessor that is Complete in the returned state
Reached(k) == \E p \in Predecessors(graph, k) : IsComplete(State, p)

\* the Outcome vertices that are Complete in the returned state
CompleteOutcomes ==
    {k \in VisitedOfType("Ref") : graph.V[k].Body.Node.Type = Outcome /\ State[k] = Complete}

\* C1: two successful runs of Execute on the same graph, start and input
\* return the same state map and the same outcome.
C1_Deterministic ==
    \A r1 \in results : \A r2 \in results :
        (r1.err = Nil /\ r2.err = Nil)
            => (r1.res.State = r2.res.State /\ r1.res.Outcome = r2.res.Outcome)

\* C2: after a successful Execute every visited And is Complete iff it has a
\* predecessor and all its predecessors are Complete in the returned state, and
\* every visited Or is Complete iff one of its predecessors is.
C2_BooleansAgree ==
    Returned =>
        \A k \in VisitedOfType("Boolean") :
            LET preds == Predecessors(graph, k)
                all == preds # {} /\ \A p \in preds : IsComplete(State, p)
            IN  IF graph.V[k].Body.Op = And
                THEN (State[k] = Complete) <=> all
                ELSE (State[k] = Complete) <=> Reached(k)

\* C3: after a successful Execute every visited Ref other than the start is
\* Complete iff one of its predecessors is Complete in the returned state.
C3_RefsAgree ==
    Returned =>
        \A k \in VisitedOfType("Ref") \ {start} : (State[k] = Complete) <=> Reached(k)

\* C4: after a successful Execute a visited Check is Complete exactly when one
\* of its predecessors is Complete and its compiled expression is true on the
\* input; with no Complete predecessor it is Inactive and was not evaluated.
C4_ChecksAgree ==
    Returned =>
        \A k \in VisitedOfType("Check") :
            LET r == CelEval(graph.programs[k], NewInputMap("input", input))
            IN  /\ (State[k] = Complete) <=> (Reached(k) /\ r.err = Nil /\ r.val)
                /\ ~Reached(k) => (State[k] = Inactive /\ k \notin x.evaluated)

\* C5: after a successful Execute a visited Action with a Complete predecessor
\* is Complete when its payload has a completion predicate that is true on the
\* input and Active otherwise; with no Complete predecessor it is Inactive and
\* its predicate was not invoked; and a step all of whose predecessors are
\* Actions that are only Active is Inactive.
C5_ActionsAgree ==
    Returned =>
        /\ \A k \in VisitedOfType("Action") :
              LET a == graph.V[k].Body.Action
              IN  IF Reached(k)
                  THEN State[k] = IF IsCompleter(a) /\ CompleterComplete(a, input).complete
                                  THEN Complete ELSE Active
                  ELSE State[k] = Inactive /\ k \notin x.evaluated
        /\ \A v \in DOMAIN State \ {start} :
              (\A p \in Predecessors(graph, v) :
                  p \in VisitedOfType("Action") /\ State[p] = Active)
                  => State[v] = Inactive

\* C6: in the Result of a successful Execute a vertex other than the start that
\* is Active or Complete has a predecessor that is Complete.
C6_ActiveHasCompletePredecessor ==
    Returned =>
        \A v \in DOMAIN State \ {start} :
            State[v] \in {Active, Complete} => Reached(v)

\* the case of C6: a Result with an Active vertex, a Complete one and an
\* Inactive one besides the start
C6_Witness ==
    /\ Returned
    /\ \E u \in DOMAIN State \ {start} : State[u] = Active
    /\ \E v \in DOMAIN State \ {start} : State[v] = Complete
    /\ \E w \in DOMAIN State \ {start} : State[w] = Inactive

\* C7: the returned outcome is non-empty exactly when an Outcome vertex is
\* Complete in the returned state.
C7_OutcomeWhenComplete ==
    Returned => ((CompleteOutcomes # {}) <=> (ReturnedOutcome # <<>>))

\* C8: a non-empty returned outcome is the id of an Outcome vertex that is
\* Complete in the returned state and whose priority is the largest of the
\* Complete Outcome vertices.
C8_OutcomeHasMaxPriority ==
    (Returned /\ ReturnedOutcome # <<>>) =>
        /\ ReturnedOutcome \in CompleteOutcomes
        /\ \A k \in CompleteOutcomes :
              graph.V[k].Body.Node.Priority <= graph.V[ReturnedOutcome].Body.Node.Priority

\* the case of C8: an outcome is returned while two Outcome vertices of
\* different priorities are Complete
C8_Witness ==
    /\ Returned
    /\ ReturnedOutcome # <<>>
    /\ \E k1 \in CompleteOutcomes : \E k2 \in CompleteOutcomes :
          graph.V[k1].Body.Node.Priority < graph.V[k2].Body.Node.Priority

\* the largest depth of a step of the tree s, the root being at depth d
RECURSIVE DepthOf(_, _)
DepthOf(s, d) ==
    IF s.Children = <<>> THEN d
    ELSE CHOOSE m \in {DepthOf(s.Children[i], d + 1) : i \in DOMAIN s.Children} :
            \A n \in {DepthOf(s.Children[i], d + 1) : i \in DOMAIN s.Children} : n <= m

\* the steps of the tree s, each with the position the compiler gives it
RECURSIVE StepsOf(_, _)
StepsOf(s, position) ==
    {[s EXCEPT !.Position = position]}
    \cup UNION {StepsOf(s.Children[i], Append(position, i - 1)) : i \in DOMAIN s.Children}

\* all steps of a path
PathSteps(path) == UNION {StepsOf(path.Steps[i], <<i - 1>>) : i \in DOMAIN path.Steps}

\* a path of the kind C9 is about: at least two steps, a Start ref first, an
\* Outcome ref last, no other ref, no step deeper than the maximum depth, every
\* check expression of type boolean
WellFormedPath(path, maxDepth) ==
    LET n == Len(path.Steps)
    IN  /\ n >= 2
        /\ assertNode(path.Steps[1], Start) = Nil
        /\ assertNode(path.Steps[n], Outcome) = Nil
        /\ \A s \in PathSteps(path) :
              /\ s.Body.type = "Ref" => s.Position \in {<<0>>, <<n - 1>>}
              /\ s.Body.type = "Check" =>
                    (~CelCompile(s.Body.Expression).issues
                     /\ CelCompile(s.Body.Expression).OutputType = "bool")
        /\ \A i \in 1..n : DepthOf(path.Steps[i], 0) <= maxDepth

WellFormed ==
    \A p \in DOMAIN program :
        WellFormedPath(program[p], IF MaxDepth = 0 THEN DefaultMaxDepth ELSE MaxDepth)

\* the step hashes of all paths of the program
StepHashes == {Hash(s) : s \in UNION {PathSteps(program[p]) : p \in DOMAIN program}}

\* C9: for a well-formed program Compile succeeds and the vertex set of the
\* graph is the set of the step hashes of all paths.
C9_WellFormedCompiles ==
    (pc # "new" /\ WellFormed) => (pc # "failed" /\ DOMAIN graph.V = StepHashes)

\* C10: a NodeError returned by Compile is not wrapped a second time and
\* carries the source location of the innermost failing step.
C10_InnermostLocation ==
    (pc = "failed" /\ cerr.err.type = "NodeError") =>
        /\ cerr.err.Err.type # "NodeError"
        /\ cerr.err.Node = cerr.origin

\* the error at the bottom of the chain of wrappers of err
RECURSIVE RootCause(_)
RootCause(err) ==
    IF err.type = "NodeError" THEN RootCause(err.Err)
    ELSE IF err.type = "withStack" THEN RootCause(err.cause)
    ELSE err

\* the errors the graph library raises
GraphErrors ==
    {ErrVertexAlreadyExists, ErrVertexNotFound, ErrEdgeAlreadyExists, ErrEdgeCreatesCycle}

\* every step of the program has a source location (the program was parsed)
Located ==
    \A p \in DOMAIN program : \A s \in PathSteps(program[p]) : s.Node # Nil

\* C11: when Compile fails on a parsed program for a well-formedness rule or a
\* type-check failure, the error is a NodeError that carries the location of
\* the offending step.
C11_FailuresAreLocated ==
    (pc = "failed" /\ Located /\ RootCause(cerr.err) \notin GraphErrors) =>
        /\ cerr.err.type = "NodeError"
        /\ cerr.err.Node # Nil
        /\ cerr.err.Node = cerr.origin

\* Compile has returned, a graph or an error, and Execute has not yet
JustCompiled == pc \in {"compiled", "failed"} /\ results = {}

\* s is a reference to a node of the given type
IsRefTo(s, type) == s.Body.type = "Ref" /\ s.Body.Node.Type = type

\* the path has fewer than two steps, or does not begin with a reference to a
\* Start node, or does not end with a reference to an Outcome node
IllOrdered(path) ==
    \/ Len(path.Steps) < 2
    \/ ~IsRefTo(path.Steps[1], Start)
    \/ ~IsRefTo(path.Steps[Len(path.Steps)], Outcome)

\* the program is one path of a Start ref followed by an Outcome ref
IsMinimal ==
    \A p \in DOMAIN program :
        /\ DOMAIN program = {p}
        /\ Len(program[p].Steps) = 2
        /\ ~IllOrdered(program[p])

\* the graph of the single edge from the first to the second step of the path
IsSingleEdge(path) ==
    /\ pc # "failed"
    /\ DOMAIN graph.V = {path.Steps[1].Body.Node.ID, path.Steps[2].Body.Node.ID}
    /\ graph.E = {<<path.Steps[1].Body.Node.ID, path.Steps[2].Body.Node.ID>>}

\* C12, as the specification states it: Compile fails when a path is too short
\* or does not begin with a Start ref or end with an Outcome ref, and a program
\* of one path Start ref, Outcome ref compiles to the single edge between them.
C12_MinimalPathCompiles ==
    pc # "new" =>
        /\ (\E p \in DOMAIN program : IllOrdered(program[p])) => pc = "failed"
        /\ IsMinimal => \A p \in DOMAIN program : IsSingleEdge(program[p])

\* C12, amended: Compile fails when a path is too short or does not begin with
\* a Start ref or end with an Outcome ref, and a program of one path Start ref,
\* Outcome ref whose two ids differ compiles to the single edge between them;
\* when the two ids are the same Compile fails.
C12_MinimalPathOfTwoNodesCompiles ==
    JustCompiled =>
        /\ (\E p \in DOMAIN program : IllOrdered(program[p])) => pc = "failed"
        /\ IsMinimal =>
              \A p \in DOMAIN program :
                  IF program[p].Steps[1].Body.Node.ID # program[p].Steps[2].Body.Node.ID
                  THEN IsSingleEdge(program[p])
                  ELSE pc = "failed"

\* the cases of C12: a minimal program has compiled, and a path that is too
\* short, begins with an Outcome or ends with a Check has been refused
C12_Witness ==
    /\ pc = "compiled"
    /\ IsMinimal

\* a ref stands where the rules do not allow it: a Start that is not the first
\* root step, an Outcome that is not the last root step, or an Unknown ref
Misplaced(s, numStatements) ==
    /\ s.Body.type = "Ref"
    /\ \/ s.Body.Node.Type = Unknown
       \/ s.Body.Node.Type = Start /\ s.Position # <<0>>
       \/ s.Body.Node.Type = Outcome /\ s.Position # <<numStatements - 1>>

\* C13: Compile fails for every program with a Start ref that is not the first
\* root step of its path, an Outcome ref that is not the last root step of its
\* path, or an Unknown ref.
C13_MisplacedRefsFail ==
    (JustCompiled
     /\ \E p \in DOMAIN program : \E s \in PathSteps(program[p]) :
           Misplaced(s, Len(program[p].Steps)))
        => pc = "failed"

\* the case of C13: Compile has refused an Outcome ref that is the child of a
\* Boolean and whose index among the children is the last root index
C13_Witness ==
    /\ pc = "failed"
    /\ RootCause(cerr.err) = Errorf("invalid node: end node had the wrong depth")
    /\ \E p \in DOMAIN program : \E s \in PathSteps(program[p]) :
          /\ IsRefTo(s, Outcome)
          /\ Len(s.Position) = 2
          /\ s.Position[2] = Len(program[p].Steps) - 1

\* the largest depth of a step of the program
ProgramDepth ==
    LET depths == UNION {{DepthOf(program[p].Steps[i], 0) : i \in DOMAIN program[p].Steps}
                         : p \in DOMAIN program}
    IN  CHOOSE m \in depths : \A n \in depths : n <= m

\* C14: Compile fails when a step lies deeper than the maximum depth, does not
\* fail for the depth when none does, and takes a MaxDepth of 0 for 10.
C14_DepthLimit ==
    LET limit == IF MaxDepth = 0 THEN 10 ELSE MaxDepth
        tooDeep == Errorf("compiler max depth was exceeded")
    IN  (JustCompiled /\ \A p \in DOMAIN program : Len(program[p].Steps) >= 2) =>
            /\ ProgramDepth > limit => pc = "failed"
            /\ (pc = "failed" /\ RootCause(cerr.err) = tooDeep) => ProgramDepth > limit
            /\ (ProgramDepth <= limit /\ WellFormed) => pc # "failed"
                  \/ RootCause(cerr.err) \in GraphErrors

\* the cases of C14: a program with a step at exactly the maximum depth,
\* given as 0, has compiled
C14_Witness ==
    /\ pc = "compiled"
    /\ MaxDepth = 0
    /\ ProgramDepth = 10

\* the Outcome nodes the dialect declares
DeclaredOutcomes == {id \in DOMAIN dialect.Nodes : dialect.Nodes[id].Type = Outcome}

\* an Outcome node has a priority of 0 or less, or two have the same priority
InvalidDialect ==
    \/ \E id \in DeclaredOutcomes : dialect.Nodes[id].Priority <= 0
    \/ \E id1 \in DeclaredOutcomes : \E id2 \in DeclaredOutcomes \ {id1} :
          dialect.Nodes[id1].Priority = dialect.Nodes[id2].Priority

\* every Validate so far has returned an error if the dialect is invalid and
\* none if it is not
VerdictsAgree == \A v \in verdicts : (v # Nil) <=> InvalidDialect

\* C19: Validate returns an error if and only if an Outcome node has a priority
\* of 0 or less or two Outcome nodes have the same priority, whatever the Start
\* nodes are and however often the dialect is validated, and it leaves the
\* dialect as it is.
C19_ValidateIffInvalid ==
    /\ []VerdictsAgree
    /\ [][dialect' = dialect]_vars

\* the case of C19: Validate has refused a dialect whose Outcome priorities are
\* all positive, two of them equal, and which declares a Start node
C19_Witness ==
    /\ pc = "parse"
    /\ verdicts = {Errorf("dialect error: each end node must have a unique priority")}
    /\ \E id \in DOMAIN dialect.Nodes : dialect.Nodes[id].Type = Start

\* C20: parseNodeRef returns an error when the dialect declares the id with a
\* kind other than the one of the step form (start: or outcome:).
C20_KindMismatchFails ==
    (ref # Nil /\ ref.expr \in DOMAIN dialect.Nodes
     /\ dialect.Nodes[ref.expr].Type # ref.nodeType)
        => ref.parsed.err # Nil

\* Compile has returned a graph
HasGraph == pc \in {"compiled", "bfs"}

\* C15: a graph returned by Compile has no cycle, and Compile returns an error
\* and no graph for the programs whose edges close a cycle.
C15_Acyclic ==
    JustCompiled =>
        /\ pc = "compiled" => \A v \in DOMAIN graph.V : v \notin Ancestors(graph.E, v)
        /\ pc = "failed" => graph = Nil
        /\ program \in CyclicPrograms =>
              (pc = "failed" /\ RootCause(cerr.err) = ErrEdgeCreatesCycle)

\* the case of C15: Compile has refused the edge that leads a second path back
\* to the start of the first
C15_Witness ==
    /\ pc = "failed"
    /\ RootCause(cerr.err) = ErrEdgeCreatesCycle
    /\ Cardinality(DOMAIN program) = 2

\* C16: in a graph returned by Compile the vertices with a compiled expression
\* are the vertices whose step is a Check.
C16_ProgramsOfChecks ==
    HasGraph =>
        DOMAIN graph.programs = {k \in DOMAIN graph.V : graph.V[k].Body.type = "Check"}

\* the start argument is no vertex, or a vertex that is not a Ref to a Start node
BadStart ==
    \/ start \notin DOMAIN graph.V
    \/ graph.V[start].Body.type # "Ref"
    \/ graph.V[start].Body.Node.Type # Start

\* C17: with a start argument that is no vertex, not a Ref or not a Start,
\* Execute returns an error and no Result and visits nothing.
C17_BadStartFails ==
    (HasGraph /\ BadStart) =>
        /\ pc = "compiled"
        /\ queue = <<>>
        /\ x = NoTraversal
        /\ result # Nil => (result.res = Nil /\ result.err # Nil)

\* the case of C17: Execute has refused a start that is a Check vertex
C17_Witness ==
    /\ HasGraph
    /\ start \in DOMAIN graph.V
    /\ graph.V[start].Body.type = "Check"
    /\ result # Nil
    /\ result.err = Errorf("provided start was not a node reference")

\* C18: when a visit has recorded an error the traversal stops there and
\* Execute returns that error and no Result; an error never comes with a Result.
C18_EvalErrorIsFatal ==
    /\ [](result # Nil => (result.err # Nil => result.res = Nil))
    /\ [][verr # Nil => (pc' = "compiled" /\ x' = x
                         /\ result' = [res |-> Nil, err |-> verr])]_vars

\* the case of C18: the completion predicate of an Action failed after other
\* vertices had been given a state, and Execute returned the error alone
C18_Witness ==
    /\ pc = "compiled"
    /\ result # Nil
    /\ result.res = Nil
    /\ result.err = Errorf("mapstructure: source data must be an array or slice")
    /\ \E k \in DOMAIN x.state \ {start} : x.state[k] = Complete

\* C21: in the State of every successful Execute the start vertex is Complete
C21_StartIsComplete ==
    Returned => start \in DOMAIN State /\ State[start] = Complete

\* an execution that went past the start: it returned with the start
\* Complete and with another vertex that is not
C21_Witness ==
    /\ Returned
    /\ start \in DOMAIN State /\ State[start] = Complete
    /\ \E k \in DOMAIN State : k # start /\ State[k] = Inactive

\* C22: a second Compile of the same Program, whatever the order of the paths,
\* succeeds exactly when the first did and then yields the same vertex keys
\* and the same edges; Compile leaves the Program as it was
C22_CompileTwice ==
    [][Recompile =>
          /\ pc' = pc
          /\ pc = "compiled" => /\ DOMAIN graph'.V = DOMAIN graph.V
                                /\ graph'.E = graph.E
          /\ program' = program]_vars

\* a compiled program of two paths where the order of the paths shows in the
\* vertices stored: compiled in another order, the graph has the same keys
\* and edges and a different vertex
C22_Witness ==
    /\ JustCompiled /\ pc = "compiled"
    /\ \E order \in Orders(DOMAIN program) :
          LET r == Compile(program, order, MaxDepth)
          IN  /\ r.err = Nil
              /\ DOMAIN r.G.V = DOMAIN graph.V
              /\ r.G.E = graph.E
              /\ r.G.V # graph.V

\* the vertices that can be reached from the vertices of frontier along the
\* edges of g, those of seen apart
RECURSIVE ReachableFrom(_, _, _)
ReachableFrom(g, frontier, seen) ==
    IF frontier = {} THEN seen
    ELSE LET next == {e[2] : e \in {d \in g.E : d[1] \in frontier}} \ (seen \cup frontier)
         IN  ReachableFrom(g, next, seen \cup frontier)

\* the vertices reachable from k, k among them
Reachable(g, k) == ReachableFrom(g, {k}, {})

\* C23: when a vertex is visited, every predecessor of it that can be reached
\* from the start has been visited already, so that its state is final
C23_PredecessorsVisitedFirst ==
    (pc = "bfs" /\ verr = Nil /\ queue # <<>>) =>
        \A p \in Predecessors(graph, Head(queue)) \cap Reachable(graph, start) :
            p \in DOMAIN x.state

\* the children of the step s, each with its position
ChildrenOf(s) ==
    {[s.Children[i] EXCEPT !.Position = Append(s.Position, i - 1)] : i \in DOMAIN s.Children}

\* the edges from every child of a step of the path to the step
ChildEdges(path) ==
    UNION {{<<Hash(c), Hash(s)>> : c \in ChildrenOf(s)} : s \in PathSteps(path)}

\* the edges from every root step of the path to every step without children
\* within the next root step
LeafEdges(path) ==
    UNION {{<<Hash([path.Steps[i] EXCEPT !.Position = <<i - 1>>]), Hash(l)>> :
               l \in {t \in StepsOf(path.Steps[i + 1], <<i>>) : t.Children = <<>>}}
           : i \in 1..(Len(path.Steps) - 1)}

\* the edges the paths of the program are to contribute
ExpectedEdges ==
    UNION {ChildEdges(program[p]) \cup LeafEdges(program[p]) : p \in DOMAIN program}

\* the steps of all paths of the program
ProgramSteps == UNION {PathSteps(program[p]) : p \in DOMAIN program}

HashCollision ==
    \E s, t \in ProgramSteps :
        /\ s.Body.type # "Ref"
        /\ <<s.Pass, s.Position>> # <<t.Pass, t.Position>>
        /\ Hash(s) = Hash(t)

\* C25: Compile fails when a step that is not a Ref hashes to the key of
\* another step's vertex; only Refs with the same node id share a vertex
C25_CollisionsFail ==
    (JustCompiled /\ HashCollision) => pc = "failed"

\* the keys of the state map of the traversal
Seen == DOMAIN x.state

\* every vertex waiting in the queue is the start or was put there by a
\* predecessor that has been visited
EnqueuedByVisited ==
    pc = "bfs" =>
        \A i \in DOMAIN queue :
            queue[i] = start \/ \E p \in Predecessors(graph, queue[i]) : p \in Seen

\* C26: the state map of a successful Execute has an entry for exactly the
\* vertices that can be reached from the start; a visit is of a vertex not
\* visited before and adds its entry alone, and a vertex is visited only
\* after the vertex that put it into the queue
C26_StateIsReachable ==
    /\ [](Returned => DOMAIN State = Reachable(graph, start))
    /\ []EnqueuedByVisited
    /\ [][BFSVisit => /\ Head(queue) \notin Seen
                      /\ DOMAIN x'.state = Seen \cup {Head(queue)}]_vars

\* a successful execution on a graph with a vertex that cannot be reached
\* from the start and is a predecessor of a vertex that can: it has no entry
C26_Witness ==
    /\ Returned
    /\ Cardinality(DOMAIN State) >= 3
    /\ \E v \in DOMAIN graph.V \ DOMAIN State :
          \E k \in DOMAIN State : v \in Predecessors(graph, k)

\* C27: every edge of the completion graph of a successful Execute joins two
\* vertices that are Complete in the returned state
C27_CompletionGraphIsComplete ==
    Returned =>
        \A e \in result.res.CG : IsComplete(State, e[1]) /\ IsComplete(State, e[2])

\* C28: asked for the type of a field of a message type, the provider
\* returns what it returns when asked for the type named by the field's full
\* path, the message type, a dot and the field name, whenever the schema has
\* that path
C28_FieldTypeIsTypeOfPath ==
    (found # Nil /\ found.query = "FindFieldType"
        /\ found.messageType \o found.fieldName \in DOMAIN provider.typeMap) =>
        found.returned = FindType(provider, found.messageType \o found.fieldName)

\* the vertices reached from the vertices of frontier over edges that leave
\* vertices Complete in the state map st
RECURSIVE CompleteReach(_, _, _, _)
CompleteReach(g, st, frontier, seen) ==
    IF frontier = {} THEN seen
    ELSE LET from == {v \in frontier : IsComplete(st, v)}
             next == {e[2] : e \in {d \in g.E : d[1] \in from}} \ (seen \cup frontier)
         IN  CompleteReach(g, st, next, seen \cup frontier)

\* C29: every vertex that is Active or Complete in the returned state is the
\* end of a path from the start on which every vertex before it is Complete
C29_CompletePathFromStart ==
    Returned =>
        \A v \in DOMAIN State :
            State[v] \in {Active, Complete} =>
                v \in CompleteReach(graph, State, {start}, {})

\* a successful execution where a vertex two or more edges from the start is
\* Complete and another vertex was visited and left Inactive
C29_Witness ==
    /\ Returned
    /\ \E v \in DOMAIN State :
          /\ State[v] = Complete
          /\ v # start /\ start \notin Predecessors(graph, v)
    /\ \E w \in DOMAIN State :
          /\ State[w] = Inactive
          /\ w \notin CompleteReach(graph, State, {start}, {})

\* C30: in a compiled graph a vertex that holds a Start ref has no incoming
\* edge and a vertex that holds an Outcome ref has no outgoing edge
C30_StartsAndOutcomesAreEnds ==
    (JustCompiled /\ pc = "compiled") =>
        \A k \in DOMAIN graph.V :
            LET b == graph.V[k].Body
            IN  b.type = "Ref" =>
                    /\ b.Node.Type = Start => Predecessors(graph, k) = {}
                    /\ b.Node.Type = Outcome => {d \in graph.E : d[1] = k} = {}

====
